---- MODULE Spec2Model ----
(***************************************************************************)
(* PyClickhouse Cursor: schema lookup (get_schema), schema reconciliation  *)
(* (_ensure_schema) and chunked bulk insert (bulkinsert), as state         *)
(* machines over a remote store reached through Connection._call.          *)
(*                                                                         *)
(* The code runs under Python 3 (Connection.py imports urllib.request).    *)
(* Every remote round trip is one step, so that the order of statements    *)
(* and the interleaving of several cursors are visible.                    *)
(***************************************************************************)
EXTENDS Integers, Sequences, FiniteSets, TLC

VARIABLES
    remote,   \* the remote table's columns: column name -> type, or Absent
    active,   \* the cursors that run in this specification
    cur,      \* per cursor: the frame of its get_schema / _ensure_schema call
    bulk,     \* the frame of the bulkinsert call (and of its recursive calls)
    cursors,  \* per cursor: its result state, its cache and its last call
    flat,     \* the last call of _flatten_dict: its document and its result
    store     \* the frame of the store_documents call

vars == <<remote, active, cur, bulk, cursors, flat, store>>

(* The cursor that select, fetchone, fetchall, cached_select, insert and   *)
(* bulkinsert are called on.                                               *)
sel == cursors[1]

---------------------------------------------------------------------------
(* Bounds of the model.                                                    *)

MaxLen == 3
MaxSize == 4

(* Program constants.                                                      *)

MaxTries == 5
Ceiling == 2000000000

(* Payload sizes are counted in units of 5 * 10^8 bytes, so that sums of   *)
(* record sizes stay inside TLC's integers; the ceiling is 4 units.  For   *)
(* sizes that are whole units, floor(CeilingUnits * n / units) is what     *)
(* int(2000000000.0 / len(payload) * len(values)) computes.                *)
Unit == 5 * 100000000
CeilingUnits == Ceiling \div Unit

---------------------------------------------------------------------------
(* Values.                                                                 *)

Procs == {1, 2}
Cols == {"a", "b"}
Absent == "absent"
Incompatible == "IncompatibleTypeError"
ScalarTypes == {"Int64", "Date", "String"}
ArrayTypes == {"Array(Int64)"}
Types == ScalarTypes \cup ArrayTypes

(* A table name is a sequence of tokens; the token "." is the separator    *)
(* character, every other token is a run of characters without a '.'.      *)
TableNames ==
    { <<"t">>, <<"default", ".", "t">>, <<"d", ".", "t">>,
      <<"a", ".", "b", ".", "c">> }

(* The one table the remote store holds.                                   *)
RemoteDatabase == <<"default">>
RemoteTable == <<"t">>

(* Failures of a remote round trip (Connection._call raises).              *)
RemoteErrors == {"bad version", "transport"}

Elem(t) == IF t = "Array(Int64)" THEN "Int64" ELSE "String"
Arr(e) == IF e = "Int64" THEN "Array(Int64)" ELSE "Array(String)"

(* formatter.generalize_type: the least type holding both.  Equal types    *)
(* stay; two scalars without a narrower common type widen to String; two   *)
(* arrays generalize element-wise; an array and a scalar have no common    *)
(* type (IncompatibleTypeError).                                           *)
RECURSIVE generalize_type(_, _)
generalize_type(a, b) ==
    IF a = b THEN a
    ELSE IF a \in ArrayTypes /\ b \in ArrayTypes
         THEN Arr(generalize_type(Elem(a), Elem(b)))
    ELSE IF a \in ArrayTypes \/ b \in ArrayTypes THEN Incompatible
    ELSE "String"

(* str.split('.') : the parts between the separators, empty parts kept.    *)
RECURSIVE split(_)
split(s) ==
    IF \A i \in 1..Len(s) : s[i] # "." THEN <<s>>
    ELSE LET k == CHOOSE i \in 1..Len(s) :
                     s[i] = "." /\ \A j \in 1..(i - 1) : s[j] # "."
         IN  <<SubSeq(s, 1, k - 1)>> \o split(SubSeq(s, k + 1, Len(s)))

(* The desired schemas: parallel sequences of distinct field names and of  *)
(* types, as store_documents builds them from a dictionary.                *)
DesiredFields ==
    { f \in UNION { [1..n -> Cols] : n \in 0..Cardinality(Cols) } :
        \A i, j \in 1..Len(f) : i # j => f[i] # f[j] }

NoSchema == [c \in Cols |-> Absent]

(* What system.columns answers for (database, table).                      *)
Columns(database, tablename) ==
    IF database = RemoteDatabase /\ tablename = RemoteTable
    THEN remote ELSE NoSchema

(* Whether an ALTER / OPTIMIZE naming `name` reaches the remote table.     *)
Resolves(name) ==
    LET parts == split(name)
    IN  \/ Len(parts) = 1 /\ parts[1] = RemoteTable
        \/ Len(parts) = 2 /\ parts[1] = RemoteDatabase /\ parts[2] = RemoteTable

---------------------------------------------------------------------------
(* Responses.  Python's None is the empty sequence, a value x is <<x>>.    *)

None == <<>>
Some(x) == <<x>>

(* The body of a response in the format TabSeparatedWithNamesAndTypes: the *)
(* line of the column names, then one line per row.  (The line of the      *)
(* types decides how a text becomes a value; the model's lines hold the    *)
(* values.)  The body of the response to a statement without a result is   *)
(* empty.                                                                  *)
NoContent == <<>>

(* formatter.unformat: one dictionary per line, in the order of the lines, *)
(* its keys the names of the first line.                                   *)
unformat(content) ==
    LET names == content[1]
    IN  [i \in 1..(Len(content) - 1) |->
           [k \in {names[j] : j \in 1..Len(names)} |->
              content[i + 1][CHOOSE j \in 1..Len(names) : names[j] = k]]]

(* The response to the select of get_schema: one line per column of the    *)
(* table, in the order of the columns.                                     *)
ColumnOrder == <<"a", "b">>

RECURSIVE ColumnLines(_, _)
ColumnLines(schema, i) ==
    IF i > Len(ColumnOrder) THEN <<>>
    ELSE (IF schema[ColumnOrder[i]] # Absent
          THEN <<<<ColumnOrder[i], schema[ColumnOrder[i]]>>>> ELSE <<>>)
         \o ColumnLines(schema, i + 1)

SchemaContent(schema) == <<<<"name", "type">>>> \o ColumnLines(schema, 1)

(* Lines 130-136, after connection._call returned a response.              *)
executewithpayload_keeps(s, content, parseresult) ==
    [s EXCEPT !.lastresult = IF parseresult THEN None ELSE Some(content),
              !.lastparsedresult = IF parseresult THEN Some(unformat(content))
                                   ELSE None,
              !.executed = Some([content |-> content,
                                 parseresult |-> parseresult]),
              !.fetched = <<>>]

executewithpayload(s, content, parseresult) ==
    [s EXCEPT !.lastresult = IF parseresult THEN None ELSE Some(content),
              !.lastparsedresult = IF parseresult THEN Some(unformat(content))
                                   ELSE None,
              !.rowindex = -1,
              !.executed = Some([content |-> content,
                                 parseresult |-> parseresult]),
              !.fetched = <<>>]

(* The cursor p after its statement was answered with `content`.           *)
Responded(p, content, parseresult) ==
    cursors' = [cursors EXCEPT ![p] = executewithpayload(@, content, parseresult)]

---------------------------------------------------------------------------
(* The frame of a cursor.                                                  *)

Idle ==
    [ op |-> "none", pc |-> "idle", table |-> <<>>, fields |-> <<>>,
      types |-> <<>>, tries |-> 0, table_schema |-> NoSchema,
      schema_try |-> -1, idx |-> 0, ddled |-> FALSE, new_types |-> <<>>,
      log |-> <<>>, last_err |-> "none", raised |-> <<>>, ret |-> <<>>,
      again |-> FALSE ]

Stmt(kind, f, col, type, ok) ==
    [ kind |-> kind, table |-> f.table, col |-> col, type |-> type, ok |-> ok,
      try |-> f.tries, basis |-> f.schema_try ]

Select(database, tablename, tries, ok) ==
    [ kind |-> "select", database |-> database, tablename |-> tablename,
      ok |-> ok, try |-> tries ]

IsAlter(s) == s.kind \in {"add", "modify"}

(* Lines 265-268: the handler of the try block and the statement after    *)
(* the loop.  Every exception is caught; `e` is unbound once the except    *)
(* clause is left, so the raise statement after the loop fails with        *)
(* UnboundLocalError before it builds its message.                         *)
Except_same_try(f, err) ==
    [f EXCEPT !.last_err = err, !.pc = "get_schema"]

Except(f, err) ==
    LET t == f.tries + 1
    IN  IF t < MaxTries
        THEN [f EXCEPT !.tries = t, !.last_err = err, !.pc = "get_schema"]
        ELSE [f EXCEPT !.tries = t, !.last_err = err, !.pc = "raised",
                       !.raised = <<"UnboundLocalError">>]

(* An exception leaving get_schema or a statement of the try block.        *)
Raise(f, err) ==
    IF f.op = "ensure" THEN Except(f, err)
    ELSE [f EXCEPT !.pc = "raised", !.raised = <<err>>]

(* Lines 261-264: after the last field of the loop of line 245.           *)
AfterLoop_always(f) ==
    IF f.idx <= Len(f.fields) THEN f
    ELSE [f EXCEPT !.pc = "optimize"]

AfterLoop(f) ==
    IF f.idx <= Len(f.fields) THEN f
    ELSE IF f.ddled THEN [f EXCEPT !.pc = "optimize"]
    ELSE [f EXCEPT !.pc = "done", !.ret = <<f.fields, f.types>>]

Quiet == bulk.pc = "idle"

---------------------------------------------------------------------------
(* Calls.                                                                  *)

Call_ensure_schema(p) ==
    /\ p \in active /\ cur[p].pc = "idle" /\ Quiet
    /\ \E t \in TableNames, f \in DesiredFields :
         \E ty \in [1..Len(f) -> Types] :
            cur' = [cur EXCEPT ![p] =
                      [Idle EXCEPT !.op = "ensure", !.pc = "get_schema",
                                   !.table = t, !.fields = f, !.types = ty]]
    /\ UNCHANGED <<remote, active, bulk, cursors, flat, store>>

Call_get_schema(p) ==
    /\ p \in active /\ cur[p].pc = "idle" /\ Quiet
    /\ \E t \in TableNames :
         cur' = [cur EXCEPT ![p] =
                   [Idle EXCEPT !.op = "get_schema", !.pc = "get_schema",
                                !.table = t]]
    /\ UNCHANGED <<remote, active, bulk, cursors, flat, store>>

(* A second reconcile with the same arguments right after a successful one *)
Call_ensure_schema_again(p) ==
    /\ cur[p].pc = "done" /\ cur[p].op = "ensure" /\ ~cur[p].again
    /\ store.pc = "idle"
    /\ cur' = [cur EXCEPT ![p] =
                 [Idle EXCEPT !.op = "ensure", !.pc = "get_schema",
                              !.table = cur[p].table, !.fields = cur[p].fields,
                              !.types = cur[p].types, !.again = TRUE]]
    /\ UNCHANGED <<remote, active, bulk, cursors, flat, store>>

---------------------------------------------------------------------------
(* get_schema, lines 178-190; as the first statement of an attempt of      *)
(* _ensure_schema (lines 241-244) it also starts the attempt.              *)

Database(parts) == IF Len(parts) = 2 THEN parts[1] ELSE <<"default">>
Tablename(parts) == IF Len(parts) = 2 THEN parts[2] ELSE parts[1]

(* Lines 189-190 and 241-242: the schema the select returned becomes the   *)
(* attempt's table_schema.                                                 *)
FetchSchema_stale(f, database, tablename) ==
    IF f.schema_try >= 0
    THEN [f EXCEPT !.log = <<Select(database, tablename, f.tries, TRUE)>>]
    ELSE [f EXCEPT !.log = <<Select(database, tablename, f.tries, TRUE)>>,
                   !.table_schema = Columns(database, tablename),
                   !.schema_try = f.tries]

FetchSchema(f, database, tablename) ==
    [f EXCEPT !.log = <<Select(database, tablename, f.tries, TRUE)>>,
              !.table_schema = Columns(database, tablename),
              !.schema_try = f.tries]

(* Lines 243-245: the attempt's locals, and the loop entered.              *)
StartLoop(f) ==
    AfterLoop([f EXCEPT !.idx = 1, !.ddled = FALSE, !.new_types = <<>>,
                        !.pc = "loop"])

(* Line 180.                                                               *)
InvalidName_three(parts) == Len(parts) > 3

InvalidName(parts) == Len(parts) > 2

get_schema(p) ==
    LET f == cur[p]
        parts == split(f.table)
    IN  /\ f.pc = "get_schema"
        /\ \/ /\ InvalidName(parts)
              /\ cur' = [cur EXCEPT ![p] =
                           Raise([f EXCEPT !.log = <<>>], "invalid name")]
              /\ UNCHANGED cursors
           \/ /\ ~InvalidName(parts)
              /\ LET g == FetchSchema(f, Database(parts), Tablename(parts))
                 IN  cur' = [cur EXCEPT ![p] =
                        IF f.op = "ensure" THEN StartLoop(g)
                        ELSE [g EXCEPT !.pc = "done",
                                       !.ret = <<g.table_schema>>]]
              /\ Responded(p, SchemaContent(Columns(Database(parts),
                                                    Tablename(parts))), TRUE)
           \/ /\ ~InvalidName(parts)
              /\ \E e \in RemoteErrors :
                   cur' = [cur EXCEPT ![p] =
                     Raise([f EXCEPT !.log =
                              <<Select(Database(parts), Tablename(parts),
                                       f.tries, FALSE)>>], e)]
              /\ UNCHANGED cursors
        /\ UNCHANGED <<remote, active, bulk, flat, store>>

---------------------------------------------------------------------------
(* The loop body of _ensure_schema, lines 245-259, one field per step.     *)

Field(f) == f.fields[f.idx]
DocType(f) == f.types[f.idx]
TableType(f) == f.table_schema[Field(f)]

(* Line 246.                                                               *)
NeedsAdd(f) == TableType(f) = Absent

(* Line 252.                                                               *)
NewType(table_type, doc_type) == generalize_type(table_type, doc_type)

(* Lines 251 and 253: a MODIFY is issued when the types differ and the     *)
(* generalized type is not the table's type.                               *)
NeedsModify_differs(table_type, doc_type) ==
    table_type # Absent /\ table_type # doc_type

NeedsModify(table_type, doc_type) ==
    /\ table_type # Absent /\ table_type # doc_type
    /\ NewType(table_type, doc_type) # table_type

(* Line 255: the type of the MODIFY statement.                             *)
ModifyType_desired(table_type, doc_type) == doc_type

ModifyType(table_type, doc_type) == NewType(table_type, doc_type)

(* Lines 248-250.                                                          *)
Added(f, ok) ==
    IF ok
    THEN [f EXCEPT !.log = Append(@, Stmt("add", f, Field(f), DocType(f), TRUE)),
                   !.ddled = TRUE,
                   !.new_types = Append(@, DocType(f)),
                   !.idx = @ + 1]
    ELSE [f EXCEPT !.log = Append(@, Stmt("add", f, Field(f), DocType(f), FALSE))]

(* Lines 255-257.                                                          *)
Modified(f, ok) ==
    LET ty == ModifyType(TableType(f), DocType(f))
    IN  IF ok
        THEN [f EXCEPT !.log = Append(@, Stmt("modify", f, Field(f), ty, TRUE)),
                       !.ddled = TRUE,
                       !.new_types = Append(@, NewType(TableType(f), DocType(f))),
                       !.idx = @ + 1]
        ELSE [f EXCEPT !.log = Append(@, Stmt("modify", f, Field(f), ty, FALSE))]

(* Lines 257 and 259: no statement for this field.                         *)
Kept(f) ==
    [f EXCEPT !.new_types =
                 Append(@, IF TableType(f) # DocType(f)
                           THEN NewType(TableType(f), DocType(f))
                           ELSE DocType(f)),
              !.idx = @ + 1]

(* The remote store applies an ADD COLUMN to its table when the column is  *)
(* not there, a MODIFY COLUMN when it is; otherwise it rejects it.  Any    *)
(* round trip may also fail with one of RemoteErrors.                      *)
CanAdd(name, col) == Resolves(name) /\ remote[col] = Absent
CanModify(name, col) == Resolves(name) /\ remote[col] # Absent

InLoop(p) == cur[p].pc = "loop" /\ cur[p].idx <= Len(cur[p].fields)

add_column(p) ==
    LET f == cur[p]
    IN  /\ InLoop(p) /\ NeedsAdd(f)
        /\ \/ /\ CanAdd(f.table, Field(f))
              /\ remote' = [remote EXCEPT ![Field(f)] = DocType(f)]
              /\ cur' = [cur EXCEPT ![p] = AfterLoop(Added(f, TRUE))]
              /\ Responded(p, NoContent, FALSE)
           \/ /\ \E e \in RemoteErrors \cup {"rejected"} :
                   /\ e = "rejected" => ~CanAdd(f.table, Field(f))
                   /\ cur' = [cur EXCEPT ![p] = Raise(Added(f, FALSE), e)]
              /\ UNCHANGED <<remote, cursors>>
        /\ UNCHANGED <<active, bulk, flat, store>>

modify_column(p) ==
    LET f == cur[p]
    IN  /\ InLoop(p) /\ ~NeedsAdd(f)
        /\ NewType(TableType(f), DocType(f)) # Incompatible
        /\ NeedsModify(TableType(f), DocType(f))
        /\ \/ /\ CanModify(f.table, Field(f))
              /\ remote' = [remote EXCEPT ![Field(f)] =
                              ModifyType(TableType(f), DocType(f))]
              /\ cur' = [cur EXCEPT ![p] = AfterLoop(Modified(f, TRUE))]
              /\ Responded(p, NoContent, FALSE)
           \/ /\ \E e \in RemoteErrors \cup {"rejected"} :
                   /\ e = "rejected" => ~CanModify(f.table, Field(f))
                   /\ cur' = [cur EXCEPT ![p] = Raise(Modified(f, FALSE), e)]
              /\ UNCHANGED <<remote, cursors>>
        /\ UNCHANGED <<active, bulk, flat, store>>

keep_column(p) ==
    LET f == cur[p]
    IN  /\ InLoop(p) /\ ~NeedsAdd(f)
        /\ NewType(TableType(f), DocType(f)) # Incompatible
        /\ ~NeedsModify(TableType(f), DocType(f))
        /\ cur' = [cur EXCEPT ![p] = AfterLoop(Kept(f))]
        /\ UNCHANGED <<remote, active, bulk, cursors, flat, store>>

(* Line 252 raising: the types have no common type.                        *)
generalize_fails(p) ==
    LET f == cur[p]
    IN  /\ InLoop(p) /\ ~NeedsAdd(f)
        /\ NewType(TableType(f), DocType(f)) = Incompatible
        /\ cur' = [cur EXCEPT ![p] = Raise(f, Incompatible)]
        /\ UNCHANGED <<remote, active, bulk, cursors, flat, store>>

(* Lines 261-264.                                                          *)
optimize(p) ==
    LET f == cur[p]
    IN  /\ f.pc = "optimize"
        /\ \/ /\ cur' = [cur EXCEPT ![p] =
                 [f EXCEPT !.log = Append(@, Stmt("optimize", f, "", "", TRUE)),
                           !.pc = "done", !.ret = <<f.fields, f.types>>]]
              /\ Responded(p, NoContent, FALSE)
           \/ /\ \E e \in RemoteErrors :
                 cur' = [cur EXCEPT ![p] =
                    Raise([f EXCEPT !.log =
                             Append(@, Stmt("optimize", f, "", "", FALSE))], e)]
              /\ UNCHANGED cursors
        /\ UNCHANGED <<remote, active, bulk, flat, store>>

---------------------------------------------------------------------------
(* bulkinsert, lines 100-122.  A record is its position in the batch and   *)
(* the size of its row in the payload; fields and types are fixed by the   *)
(* first call and handed down, so the header has one size in all calls.    *)

HeaderSizes == {1, 2}
RecursionLimit == MaxLen + 2

BulkIdle ==
    [ pc |-> "idle", values |-> <<>>, header |-> 0, call |-> <<>>,
      stack |-> <<>>, sent |-> <<>>, err |-> <<>>, depth |-> 0 ]

RECURSIVE RowsLen(_)
RowsLen(vals) ==
    IF vals = <<>> THEN 0 ELSE vals[1].size + RowsLen(Tail(vals))

(* len(payload) of formatter.format(values, fields, types): the header     *)
(* lines and one row per record.                                           *)
PayloadLen(header, vals) == header + RowsLen(vals)

(* Line 114.                                                               *)
Fits_le(len) == len <= CeilingUnits

Fits(len) == len < CeilingUnits

(* Line 118: int(2000000000.0 / len(payload) * len(values)).               *)
Batch(len, n) == (CeilingUnits * n) \div len

Min(a, b) == IF a < b THEN a ELSE b

(* Lines 121-122: values[i:i+batch].                                       *)
Chunk_short(vals, i, batch) ==
    SubSeq(vals, i + 1, Min(i + batch, Len(vals)) - 1)

Chunk(vals, i, batch) == SubSeq(vals, i + 1, Min(i + batch, Len(vals)))

(* The return of a call: the caller's loop of line 121 goes on with its    *)
(* next chunk, or ends and returns to its own caller.                      *)
RECURSIVE Return(_, _)
Return(b, stack) ==
    IF stack = <<>> THEN [b EXCEPT !.pc = "done", !.stack = <<>>, !.call = <<>>]
    ELSE LET top == stack[Len(stack)]
             i == top.i + top.batch
         IN  IF i < Len(top.values)
             THEN [b EXCEPT !.pc = "call",
                            !.stack = [stack EXCEPT ![Len(stack)].i = i],
                            !.call = Chunk(top.values, i, top.batch)]
             ELSE Return(b, SubSeq(stack, 1, Len(stack) - 1))

Call_bulkinsert ==
    /\ Quiet /\ \A p \in Procs : cur[p].pc = "idle"
    /\ store.pc = "idle"
    /\ \E n \in 1..MaxLen, h \in HeaderSizes :
         \E sz \in [1..n -> 1..MaxSize] :
            LET vals == [i \in 1..n |-> [id |-> i, size |-> sz[i]]]
            IN  bulk' = [BulkIdle EXCEPT !.pc = "call", !.values = vals,
                                         !.header = h, !.call = vals]
    /\ UNCHANGED <<remote, active, cur, cursors, flat, store>>

(* Lines 114-116.                                                          *)
bulkinsert_send ==
    /\ bulk.pc = "call"
    /\ Fits(PayloadLen(bulk.header, bulk.call))
    /\ \/ /\ bulk' = Return([bulk EXCEPT !.sent = Append(@, bulk.call)],
                            bulk.stack)
          /\ Responded(1, NoContent, FALSE)
       \/ /\ \E e \in RemoteErrors :
                bulk' = [bulk EXCEPT !.sent = Append(@, bulk.call),
                                     !.pc = "raised", !.err = <<e>>]
          /\ UNCHANGED cursors
    /\ UNCHANGED <<remote, active, cur, flat, store>>

(* Lines 117-122: the first recursive call of the loop.                    *)
bulkinsert_split ==
    LET len == PayloadLen(bulk.header, bulk.call)
        batch == Batch(len, Len(bulk.call))
    IN  /\ bulk.pc = "call"
        /\ ~Fits(len) /\ batch >= 1
        /\ Len(bulk.stack) + 1 < RecursionLimit
        /\ bulk' = [bulk EXCEPT
              !.stack = Append(@, [values |-> bulk.call, batch |-> batch,
                                   i |-> 0]),
              !.call = Chunk(bulk.call, 0, batch),
              !.depth = IF Len(bulk.stack) + 1 > @
                        THEN Len(bulk.stack) + 1 ELSE @]
        /\ UNCHANGED <<remote, active, cur, cursors, flat, store>>

(* Lines 119-120.                                                          *)
bulkinsert_too_large ==
    LET len == PayloadLen(bulk.header, bulk.call)
    IN  /\ bulk.pc = "call"
        /\ ~Fits(len) /\ Batch(len, Len(bulk.call)) < 1
        /\ bulk' = [bulk EXCEPT !.pc = "raised", !.err = <<"too large">>]
        /\ UNCHANGED <<remote, active, cur, cursors, flat, store>>

(* Line 122 when the interpreter's call stack is full.                     *)
bulkinsert_recursion ==
    LET len == PayloadLen(bulk.header, bulk.call)
    IN  /\ bulk.pc = "call"
        /\ ~Fits(len) /\ Batch(len, Len(bulk.call)) >= 1
        /\ Len(bulk.stack) + 1 >= RecursionLimit
        /\ bulk' = [bulk EXCEPT !.pc = "raised", !.err = <<"RecursionError">>]
        /\ UNCHANGED <<remote, active, cur, cursors, flat, store>>

---------------------------------------------------------------------------
(* Texts.  A text is a sequence of tokens: " " and "\n" are whitespace     *)
(* characters, every other token is a run of word characters (a letter, or *)
(* a keyword written out).                                                 *)

MaxRows == 2
MaxCalls == 5
MaxCached == 3

Whitespace == {" ", "\n"}
IsWord(tok) == tok \notin Whitespace

LowerToken(tok) ==
    CASE tok = "FORMAT" -> "format"
      [] tok = "SELECT" -> "select"
      [] tok = "TabSeparatedWithNamesAndTypes" -> "tabseparatedwithnamesandtypes"
      [] tok = "JSON" -> "json"
      [] OTHER -> tok

(* str.lower().                                                            *)
lower(s) == [i \in 1..Len(s) |-> LowerToken(s[i])]

(* The positions `$` matches at: the end, and before a final newline.      *)
Ends(s) ==
    {Len(s)} \cup (IF Len(s) > 0 /\ s[Len(s)] = "\n" THEN {Len(s) - 1} ELSE {})

(* Line 80: re.match(r'^.+?\s+format\s+\w+$', s) is not None.  `.` matches *)
(* every character but the newline.                                        *)
FormatMatch(s) ==
    \E n \in Ends(s) : \E i \in 1..n, j \in 1..n, k \in 1..n :
       /\ i + 2 <= j /\ j + 2 <= k
       /\ \A x \in 1..i : s[x] # "\n"
       /\ \A x \in (i + 1)..(j - 1) : s[x] \in Whitespace
       /\ s[j] = "format"
       /\ \A x \in (j + 1)..(k - 1) : s[x] \in Whitespace
       /\ \A x \in k..n : IsWord(s[x])

(* Line 81.                                                                *)
FormatClause == <<" ", "FORMAT", " ", "TabSeparatedWithNamesAndTypes">>

(* The queries handed to select.                                           *)
Queries ==
    { <<"q">>,
      <<"q", " ", "FORMAT", " ", "TabSeparatedWithNamesAndTypes">>,
      <<"q", "\n", "FORMAT", " ", "TabSeparatedWithNamesAndTypes">>,
      <<"q", " ", "format", " ", "JSON">>,
      <<"q", "\n", "x", " ", "FORMAT", " ", "TabSeparatedWithNamesAndTypes">> }

(* The bodies of the responses to a select on a table with the columns a   *)
(* and b.                                                                  *)
Lines == {<<1, 1>>, <<2, 1>>}
Contents ==
    { <<<<"a", "b">>>> \o rows : rows \in UNION { [1..n -> Lines] : n \in 0..MaxRows } }

---------------------------------------------------------------------------
(* The cache of the cursor (FilterableCache): tag -> dataset.  A dataset   *)
(* keeps the indexed fields and the rows; `query` records the query of the *)
(* call that added it.                                                     *)

EmptyCache == [t \in {} |-> None]

has_dataset(cache, tag) == tag \in DOMAIN cache

add_dataset(cache, tag, keys, rows, query) ==
    [t \in DOMAIN cache \cup {tag} |->
        IF t = tag THEN [keys |-> keys, rows |-> rows, query |-> query]
        ELSE cache[t]]

Indexed(keys) == { keys[i] : i \in 1..Len(keys) }

Matches(row, filter) == \A k \in DOMAIN filter : row[k] = filter[k]

RECURSIVE Filtered(_, _)
Filtered(rows, filter) ==
    IF rows = <<>> THEN <<>>
    ELSE (IF Matches(rows[1], filter) THEN <<rows[1]>> ELSE <<>>)
         \o Filtered(Tail(rows), filter)

(* cache.select: the rows that match every field of the filter; a field    *)
(* that was not indexed is an error.                                       *)
cache_select(cache, tag, filter) ==
    IF DOMAIN filter \subseteq Indexed(cache[tag].keys)
    THEN [ret |-> Some(Filtered(cache[tag].rows, filter)), raised |-> None]
    ELSE [ret |-> None, raised |-> Some("UnindexedFieldError")]

(* The arguments of cached_select: a query without a FORMAT clause, and a  *)
(* filter on some of the columns.                                          *)
CachedQueries == { <<"q">>, <<"q", "a">> }
FilterValues == {1}
Filters == UNION { [K -> FilterValues] : K \in SUBSET Cols }

(* Line 169: sorted(filter.keys()); the names are single characters.       *)
Rank(name) == IF name = "a" THEN 1 ELSE 2

RECURSIVE sorted(_)
sorted(S) ==
    IF S = {} THEN <<>>
    ELSE LET m == CHOOSE x \in S : \A y \in S : Rank(x) <= Rank(y)
         IN  <<m>> \o sorted(S \ {m})

(* Line 170: ''.join(keys).                                                *)
RECURSIVE join(_)
join(keys) == IF keys = <<>> THEN <<>> ELSE <<keys[1]>> \o join(Tail(keys))

Tag(query, keys) == query \o join(keys)

---------------------------------------------------------------------------
(* select, ddl, fetchone, fetchall and cached_select, lines 67-176.        *)

NoCall ==
    [ op |-> "none", query |-> <<>>, args |-> <<>>, params |-> <<>>,
      keys |-> <<>>, sent |-> <<>>,
      content |-> None, ret |-> None, raised |-> None, tag |-> None ]

(* `executed` is the last statement executed: the body of its response and *)
(* whether it was to be parsed; `fetched` lists what the fetchone calls    *)
(* since then returned; `first` keeps, per query and fields, the call of   *)
(* the first cached_select that returned and the dataset that answered it. *)
SelIdle ==
    [ lastresult |-> None, lastparsedresult |-> None, rowindex |-> -1,
      cache |-> EmptyCache, calls |-> 0, out |-> NoCall, fetched |-> <<>>,
      executed |-> None, first |-> {} ]

(* Lines 80-84: the result is parsed when select appended the clause.      *)
ParseResult(query) == ~FormatMatch(lower(query))
SentQuery(query) ==
    IF ParseResult(query) THEN query \o FormatClause ELSE query

Called(s, out) == [s EXCEPT !.calls = @ + 1, !.out = out]

CanCall == sel.calls < MaxCalls

(* The cursor after a call of one of its methods.                          *)
Calls(s, out) == cursors' = [cursors EXCEPT ![1] = Called(s, out)]

select(query) ==
    /\ CanCall
    /\ \/ \E content \in Contents :
             Calls(executewithpayload(sel, content, ParseResult(query)),
                      [NoCall EXCEPT !.op = "select", !.query = query,
                                     !.sent = <<SentQuery(query)>>,
                                     !.content = Some(content)])
       \/ \E e \in RemoteErrors :
             Calls(sel,
                      [NoCall EXCEPT !.op = "select", !.query = query,
                                     !.sent = <<SentQuery(query)>>,
                                     !.raised = Some(e)])
    /\ UNCHANGED <<remote, active, cur, bulk, flat, store>>

(* Lines 93-98: a statement without a result.                              *)
ddl ==
    /\ CanCall
    /\ \/ Calls(executewithpayload(sel, NoContent, FALSE),
                   [NoCall EXCEPT !.op = "ddl", !.query = <<"d">>,
                                  !.sent = <<<<"d">>>>,
                                  !.content = Some(NoContent)])
       \/ \E e \in RemoteErrors :
             Calls(sel,
                      [NoCall EXCEPT !.op = "ddl", !.query = <<"d">>,
                                     !.sent = <<<<"d">>>>, !.raised = Some(e)])
    /\ UNCHANGED <<remote, active, cur, bulk, flat, store>>

(* Line 144.                                                               *)
AtEnd(rowindex, rows) == rowindex >= Len(rows) - 1

(* Line 147: rows[index], the index counted from 0.                        *)
Row(rows, index) == rows[index + 1]

(* Lines 138-147.                                                          *)
fetchone ==
    /\ CanCall
    /\ LET out == [NoCall EXCEPT !.op = "fetchone"]
       IN  IF sel.lastparsedresult = None
           THEN IF sel.lastresult = None
                THEN Calls(sel,
                               [out EXCEPT !.raised = Some("AttributeError")])
                ELSE Calls([sel EXCEPT !.fetched =
                                             Append(@, sel.lastresult)],
                               [out EXCEPT !.ret = sel.lastresult])
           ELSE LET rows == sel.lastparsedresult[1]
                    next == sel.rowindex + 1
                IN  IF AtEnd(sel.rowindex, rows)
                    THEN Calls([sel EXCEPT !.fetched = Append(@, None)],
                                       out)
                    ELSE Calls(
                            [sel EXCEPT !.rowindex = next,
                                        !.fetched = Append(@, Some(Row(rows, next)))],
                            [out EXCEPT !.ret = Some(Row(rows, next))])
    /\ UNCHANGED <<remote, active, cur, bulk, flat, store>>

(* Lines 149-153.                                                          *)
Fetchall(s) == s.lastparsedresult

fetchall ==
    /\ CanCall
    /\ Calls(sel, [NoCall EXCEPT !.op = "fetchall",
                                         !.ret = Fetchall(sel)])
    /\ UNCHANGED <<remote, active, cur, bulk, flat, store>>

(* The first cached_select of a query and fields that returned, with the   *)
(* dataset that answered it.                                               *)
Returned(s, query, keys, tag) ==
    IF \E r \in s.first : r.query = query /\ r.keys = keys THEN s.first
    ELSE s.first \cup
            {[query |-> query, keys |-> keys, call |-> s.calls + 1,
              dataset |-> s.cache[tag]]}

Answered(s, out, filter) ==
    LET res == cache_select(s.cache, out.tag[1], filter)
    IN  Called([s EXCEPT !.first = IF res.raised = None
                                   THEN Returned(s, out.query, out.keys,
                                                 out.tag[1])
                                   ELSE @],
               [out EXCEPT !.ret = res.ret, !.raised = res.raised])

Answers(s, out, filter) ==
    cursors' = [cursors EXCEPT ![1] = Answered(s, out, filter)]

(* Lines 155-176.  The select of line 173 is the whole of select above.    *)
cached_select(query, filter) ==
    LET keys == sorted(DOMAIN filter)
        tag == Tag(query, keys)
        out == [NoCall EXCEPT !.op = "cached_select", !.query = query,
                              !.keys = keys, !.tag = Some(tag)]
    IN  /\ CanCall /\ sel.calls < MaxCached
        /\ \/ /\ has_dataset(sel.cache, tag)
              /\ Answers(sel, out, filter)
           \/ /\ ~has_dataset(sel.cache, tag)
              /\ \E content \in Contents :
                   LET s == executewithpayload(sel, content, ParseResult(query))
                       o == [out EXCEPT !.sent = <<SentQuery(query)>>,
                                        !.content = Some(content)]
                   IN  IF Fetchall(s) = None
                       THEN Calls(s, [o EXCEPT !.raised =
                                                          Some("TypeError")])
                       ELSE Answers(
                               [s EXCEPT !.cache =
                                   add_dataset(@, tag, keys,
                                               Fetchall(s)[1], query)],
                               o, filter)
           \/ /\ ~has_dataset(sel.cache, tag)
              /\ \E e \in RemoteErrors :
                   Calls(sel, [out EXCEPT !.sent = <<SentQuery(query)>>,
                                                  !.raised = Some(e)])
        /\ UNCHANGED <<remote, active, cur, bulk, flat, store>>

---------------------------------------------------------------------------
(* Documents.  A value is an integer, a string, None, a list or a          *)
(* dictionary; the items of a dictionary are kept in their order.          *)

MaxElems == 3

Integer(n) == [t |-> "int", v |-> <<n>>]
Str(chars) == [t |-> "str", v |-> chars]
Null == [t |-> "none", v |-> <<>>]
List(elems) == [t |-> "list", v |-> elems]
Map(items) == [t |-> "map", v |-> items]
Item(k, x) == [k |-> k, x |-> x]

(* hasattr(v, '__len__'), hasattr(v, 'items'), hasattr(v, '__iter__'): a   *)
(* string has a length and is iterable.                                    *)
HasLen(v) == v.t \in {"str", "list", "map"}
HasItems(v) == v.t = "map"
HasIter(v) == v.t \in {"str", "list", "map"}

(* Lines 197 and 224.                                                      *)
Skipped(v) == v.t = "none" \/ (HasLen(v) /\ Len(v.v) = 0)

(* The elements enumerate() yields: of a string, its characters.           *)
Elems(arr) ==
    IF arr.t = "str" THEN [i \in 1..Len(arr.v) |-> Str(<<arr.v[i]>>)]
    ELSE arr.v

(* ujson.dumps.                                                            *)
Digit(n) == <<"0", "1", "2", "3", "4", "5", "6", "7", "8", "9">>[n + 1]

RECURSIVE dumps(_), dumps_items(_, _)
dumps(v) ==
    CASE v.t = "int" -> <<Digit(v.v[1])>>
      [] v.t = "none" -> <<"null">>
      [] v.t = "str" -> <<"\"">> \o v.v \o <<"\"">>
      [] v.t = "list" -> <<"[">> \o dumps_items(v.v, FALSE) \o <<"]">>
      [] v.t = "map" -> <<"{">> \o dumps_items(v.v, TRUE) \o <<"}">>

dumps_items(items, keyed) ==
    IF items = <<>> THEN <<>>
    ELSE (IF keyed
          THEN <<"\"", items[1].k, "\"", ":">> \o dumps(items[1].x)
          ELSE dumps(items[1]))
         \o (IF Len(items) > 1 THEN <<",">> ELSE <<>>)
         \o dumps_items(Tail(items), keyed)

(* The result of a flattening: column name -> value.                       *)
EmptyResult == [name \in {} |-> Null]

(* dict.update and the assignment result[name] = value.                    *)
Update(result, other) ==
    [name \in DOMAIN result \cup DOMAIN other |->
        IF name \in DOMAIN other THEN other[name] ELSE result[name]]

Assign(result, name, value) ==
    [n \in DOMAIN result \cup {name} |-> IF n = name THEN value ELSE result[n]]

(* Lines 201-202 and 207-208: [None] * len(arr).                           *)
Nulls(n) == List([j \in 1..n |-> Null])

(* Lines 203 and 209: result[k][i] = v, i counted from 1 here.             *)
Put(column, i, value) == List([column.v EXCEPT ![i] = value])

(* Lines 200-203: the columns of one element that is a dictionary.         *)
PutAll(result, columns, i, n) ==
    [name \in DOMAIN result \cup DOMAIN columns |->
        IF name \in DOMAIN columns
        THEN Put(IF name \in DOMAIN result THEN result[name] ELSE Nulls(n),
                 i, columns[name])
        ELSE result[name]]

(* Lines 210-211: the handler of NestingLevelTooHigh.  It adds the column  *)
(* to what the loop has stored so far.                                     *)
Fallback(result, prefix, arr) ==
    Assign(result, prefix \o <<"_json">>, Str(dumps(arr)))

RECURSIVE flatten_dict(_, _, _), FlattenItems(_, _, _, _, _),
          flatten_array(_, _), FlattenElems(_, _, _, _)

(* _flatten_dict, lines 215-235: the result, or NestingLevelTooHigh.       *)
flatten_dict(doc, prefix, allow_arrays) ==
    FlattenItems(doc.v, 1, IF prefix # <<>> THEN prefix \o <<"_">> ELSE prefix,
                 allow_arrays, EmptyResult)

(* The loop of line 223 from item i on.                                    *)
FlattenItems(items, i, prefix, allow_arrays, result) ==
    IF i > Len(items) THEN [raised |-> FALSE, result |-> result]
    ELSE LET k == items[i].k
             v == items[i].x
         IN  IF Skipped(v)
             THEN FlattenItems(items, i + 1, prefix, allow_arrays, result)
             ELSE IF HasItems(v)
             THEN LET r == flatten_dict(v, prefix \o <<k>>, TRUE)
                  IN  IF r.raised THEN [raised |-> TRUE, result |-> result]
                      ELSE FlattenItems(items, i + 1, prefix, allow_arrays,
                                        Update(result, r.result))
             ELSE IF HasIter(v)
             THEN IF allow_arrays
                  THEN FlattenItems(items, i + 1, prefix, allow_arrays,
                          Update(result, flatten_array(v, prefix \o <<k>>)))
                  ELSE [raised |-> TRUE, result |-> result]
             ELSE FlattenItems(items, i + 1, prefix, allow_arrays,
                               Assign(result, prefix \o <<k>>, v))

(* _flatten_array, lines 192-213.                                          *)
flatten_array(arr, prefix) == FlattenElems(arr, 1, prefix, EmptyResult)

(* The loop of line 196 from element i on.                                 *)
FlattenElems(arr, i, prefix, result) ==
    LET elems == Elems(arr)
        n == Len(elems)
    IN  IF i > n THEN result
        ELSE LET element == elems[i]
             IN  IF Skipped(element)
                 THEN FlattenElems(arr, i + 1, prefix, result)
                 ELSE IF HasItems(element)
                 THEN LET r == flatten_dict(element, prefix, FALSE)
                      IN  IF r.raised THEN Fallback(result, prefix, arr)
                          ELSE FlattenElems(arr, i + 1, prefix,
                                            PutAll(result, r.result, i, n))
                 ELSE IF HasIter(element)
                 THEN Fallback(result, prefix, arr)
                 ELSE FlattenElems(arr, i + 1, prefix,
                         Assign(result, prefix,
                                Put(IF prefix \in DOMAIN result
                                    THEN result[prefix] ELSE Nulls(n),
                                    i, element)))

(* The elements of the arrays that are flattened, and the documents: one   *)
(* field p that holds an element or an array of elements.                  *)
Elements ==
    { Null, Integer(1), List(<<Integer(1)>>), Str(<<"s">>),
      Map(<<>>),
      Map(<<Item("x", Integer(1))>>),
      Map(<<Item("x", Integer(2))>>),
      Map(<<Item("y", Integer(1))>>),
      Map(<<Item("x", Integer(1)), Item("y", Integer(2))>>),
      Map(<<Item("x", Null)>>),
      Map(<<Item("x", List(<<Integer(1)>>))>>),
      Map(<<Item("x", Str(<<"s">>))>>),
      Map(<<Item("x", Map(<<Item("z", Integer(1))>>))>>),
      Map(<<Item("x", Map(<<Item("z", List(<<Integer(1)>>))>>))>> ) }

Arrays == { List(e) : e \in UNION { [1..n -> Elements] : n \in 0..MaxElems } }

Documents == { Map(<<Item("p", v)>>) : v \in Elements \cup Arrays }

FlatIdle == [doc |-> None, result |-> None, raised |-> FALSE]

(* A call of _flatten_dict(doc), as line 274 makes it.                     *)
Call_flatten_dict ==
    /\ flat.doc = None
    /\ \E doc \in Documents :
          LET r == flatten_dict(doc, <<>>, TRUE)
          IN  flat' = [doc |-> Some(doc), result |-> Some(r.result),
                       raised |-> r.raised]
    /\ UNCHANGED <<remote, active, cur, bulk, cursors, store>>

---------------------------------------------------------------------------
(* Parameters, lines 48-56 and 128-129.  A parameter is a string (a        *)
(* sequence of characters), an integer, a boolean, or a datetime (its text *)
(* to the second, and its microseconds).                                   *)

MaxParam == 3

Quote == "'"
Backslash == "\\"

Strings == UNION { [1..n -> {"a", Quote, Backslash}] : n \in 0..MaxParam }

Params ==
    { Str(chars) : chars \in Strings }
      \cup { Integer(n) : n \in 0..1 }
      \cup { [t |-> "bool", v |-> <<b>>] : b \in BOOLEAN }
      \cup { [t |-> "datetime", v |-> <<"2020-01-02 03:04:05", 678>>] }

(* str.replace("'", "\\'").                                                 *)
RECURSIVE replace(_)
replace(chars) ==
    IF chars = <<>> THEN <<>>
    ELSE (IF chars[1] = Quote THEN <<Backslash, Quote>> ELSE <<chars[1]>>)
         \o replace(Tail(chars))

(* _escapeparameter, lines 48-56, and the text %s makes of its result.     *)
escapeparameter(param) ==
    CASE param.t = "bool" -> IF param.v[1] THEN <<"1">> ELSE <<"0">>
      [] param.t = "int" -> <<Digit(param.v[1])>>
      [] param.t = "datetime" -> <<Quote, param.v[1], Quote>>
      [] OTHER -> <<Quote>> \o replace(param.v) \o <<Quote>>

(* The queries with parameters: "%s" is a conversion specifier.  (The      *)
(* arguments of select go the same way, through line 84; the model's       *)
(* select is the call without arguments.)                                  *)
ParamQueries == { <<"q", "%s">>, <<"q">> }

(* Line 129: query % tuple(...), the specifiers replaced in their order.   *)
RECURSIVE Format(_, _)
Format(query, params) ==
    IF query = <<>> THEN <<>>
    ELSE IF query[1] = "%s"
    THEN params[1] \o Format(Tail(query), Tail(params))
    ELSE <<query[1]>> \o Format(Tail(query), params)

(* Lines 86-91 and 128-136: insert(query, *args) with arguments.  The      *)
(* operator % raises TypeError when the arguments are not as many as the   *)
(* specifiers; without arguments the query is sent as it is.               *)
insert(query, args) ==
    LET params == [i \in 1..Len(args) |-> escapeparameter(args[i])]
        out == [NoCall EXCEPT !.op = "insert", !.query = query,
                              !.args = args, !.params = params]
    IN  /\ CanCall
        /\ IF /\ args # <<>>
              /\ Cardinality({i \in 1..Len(query) : query[i] = "%s"}) # Len(args)
           THEN Calls(sel, [out EXCEPT !.raised = Some("TypeError")])
           ELSE LET sent == IF args # <<>> THEN Format(query, params)
                            ELSE query
                IN  \/ Calls(executewithpayload(sel, NoContent, FALSE),
                                 [out EXCEPT !.sent = <<sent>>,
                                             !.content = Some(NoContent)])
                    \/ \E e \in RemoteErrors :
                          Calls(sel, [out EXCEPT !.sent = <<sent>>,
                                                         !.raised = Some(e)])
        /\ UNCHANGED <<remote, active, cur, bulk, flat, store>>

ExecuteQueries ==
    { <<"select", " ", "q">>, <<"SELECT", " ", "q">>,
      <<"insert", " ", "q">>, <<"update", " ", "selected">> }

(* Lines 58-65: execute(query), the call without arguments.  Line 62 is    *)
(* 'select' in query.lower(); the words of the model that hold the letters *)
(* of select are select and selected.                                      *)
execute(query) ==
    IF \E i \in 1..Len(query) : lower(query)[i] \in {"select", "selected"}
    THEN select(query)
    ELSE insert(query, <<>>)

---------------------------------------------------------------------------
(* store_documents, lines 270-298.                                         *)

(* The documents of a batch: fields a and b, flat.                         *)
StoreDocuments ==
    { Map(<<Item("a", va), Item("b", vb)>>) :
        va \in {Integer(1), Null},
        vb \in {Integer(1), List(<<Integer(1)>>), List(<<>>)} }

Batches == UNION { [1..n -> StoreDocuments] : n \in 1..2 }

(* formatter.get_schema of a flattened document: its fields in their       *)
(* order, and the narrowest type of each value.                            *)
InferType(v) ==
    CASE v.t = "int" -> "Int64"
      [] v.t = "list" -> Arr("Int64")
      [] OTHER -> "String"

RECURSIVE DocSchema(_, _)
DocSchema(items, flattened) ==
    IF items = <<>> THEN <<>>
    ELSE (IF <<items[1].k>> \in DOMAIN flattened
          THEN <<[f |-> items[1].k, t |-> InferType(flattened[<<items[1].k>>])]>>
          ELSE <<>>)
         \o DocSchema(Tail(items), flattened)

(* Line 274.                                                               *)
Flatten(batch) ==
    [i \in 1..Len(batch) |-> flatten_dict(batch[i], <<>>, TRUE).result]

RECURSIVE SchemaPairs(_, _, _)
SchemaPairs(batch, flattened, i) ==
    IF i > Len(batch) THEN <<>>
    ELSE DocSchema(batch[i].v, flattened[i])
         \o SchemaPairs(batch, flattened, i + 1)

(* Lines 275-282: the schema of the batch, one pair of a document at a     *)
(* time.                                                                   *)
RECURSIVE doc_schema(_, _)
doc_schema(pairs, schema) ==
    IF pairs = <<>> THEN schema
    ELSE LET f == pairs[1].f
             t == pairs[1].t
         IN  IF f \notin DOMAIN schema.types
             THEN doc_schema(Tail(pairs),
                     [schema EXCEPT !.fields = Append(@, f),
                                    !.types = [c \in DOMAIN @ \cup {f} |->
                                                 IF c = f THEN t ELSE @[c]]])
             ELSE IF schema.types[f] = t THEN doc_schema(Tail(pairs), schema)
             ELSE IF generalize_type(schema.types[f], t) = Incompatible
             THEN [schema EXCEPT !.raised = TRUE]
             ELSE doc_schema(Tail(pairs),
                     [schema EXCEPT !.types[f] =
                                       generalize_type(schema.types[f], t)])

StoreIdle ==
    [ pc |-> "idle", proc |-> 0, table |-> <<>>, batch |-> <<>>,
      documents |-> <<>>, sizes |-> <<>>, fields |-> <<>>, types |-> <<>>, remote0 |-> NoSchema,
      tries |-> 0, inserts |-> 0, last_err |-> None, raised |-> None ]

(* Lines 274-286: up to the call of _ensure_schema.                        *)
Call_store_documents(p) ==
    /\ p \in active /\ store.pc = "idle" /\ Quiet
    /\ \A q \in Procs : cur[q].pc = "idle"
    /\ \E batch \in Batches : \E sizes \in [1..Len(batch) -> {1, 2, MaxSize}] :
          LET documents == Flatten(batch)
              schema == doc_schema(SchemaPairs(batch, documents, 1),
                                   [fields |-> <<>>, types |-> [c \in {} |-> ""],
                                    raised |-> FALSE])
              fields == schema.fields
              types == [i \in 1..Len(fields) |-> schema.types[fields[i]]]
              frame == [StoreIdle EXCEPT !.proc = p, !.table = RemoteTable,
                                         !.batch = batch,
                                         !.documents = documents,
                                         !.sizes = sizes,
                                         !.remote0 = remote]
          IN  IF schema.raised
              THEN /\ store' = [frame EXCEPT !.pc = "raised",
                                             !.raised = Some(Incompatible)]
                   /\ UNCHANGED cur
              ELSE /\ store' = [frame EXCEPT !.pc = "ensure",
                                             !.fields = fields, !.types = types]
                   /\ cur' = [cur EXCEPT ![p] =
                                [Idle EXCEPT !.op = "ensure", !.pc = "get_schema",
                                             !.table = RemoteTable,
                                             !.fields = fields, !.types = types]]
    /\ UNCHANGED <<remote, active, bulk, cursors, flat>>

(* _ensure_schema raised: the error leaves store_documents.                *)
store_documents_raised ==
    /\ store.pc = "ensure" /\ cur[store.proc].pc = "raised"
    /\ store' = [store EXCEPT !.pc = "raised",
                              !.raised = Some(cur[store.proc].raised)]
    /\ UNCHANGED <<remote, active, cur, bulk, cursors, flat>>

(* One record of the payload per document, after a header of one unit.     *)
Records(sizes) == [i \in 1..Len(sizes) |-> [id |-> i, size |-> sizes[i]]]

(* Lines 286-290: _ensure_schema returned its fields and types, and        *)
(* bulkinsert is called with them.                                         *)
store_documents_insert ==
    /\ store.pc = "ensure" /\ cur[store.proc].pc = "done" /\ Quiet
    /\ store' = [store EXCEPT !.pc = "insert", !.inserts = @ + 1,
                              !.fields = cur[store.proc].ret[1],
                              !.types = cur[store.proc].ret[2]]
    /\ bulk' = [BulkIdle EXCEPT !.pc = "call", !.header = 1,
                                !.values = Records(store.sizes),
                                !.call = Records(store.sizes)]
    /\ UNCHANGED <<remote, active, cur, cursors, flat>>

(* Line 291.                                                               *)
store_documents_return ==
    /\ store.pc = "insert" /\ bulk.pc = "done"
    /\ store' = [store EXCEPT !.pc = "done"]
    /\ UNCHANGED <<remote, active, cur, bulk, cursors, flat>>

(* Lines 292-294: bulkinsert raised.  An exception has no attribute        *)
(* `message`, so the test of line 294 raises AttributeError for every      *)
(* exception, and lines 295-298 are never reached.                         *)
store_documents_except ==
    /\ store.pc = "insert" /\ bulk.pc = "raised"
    /\ store' = [store EXCEPT !.pc = "raised", !.last_err = Some(bulk.err[1]),
                              !.raised = Some("AttributeError")]
    /\ UNCHANGED <<remote, active, cur, bulk, cursors, flat>>


---------------------------------------------------------------------------
(* The specification: one cursor, one call at a time.                      *)

Init ==
    /\ remote \in [Cols -> Types \cup {Absent}]
    /\ active = {1}
    /\ cur = [p \in Procs |-> Idle]
    /\ bulk = BulkIdle
    /\ cursors = [p \in Procs |-> SelIdle]
    /\ flat = FlatIdle
    /\ store = StoreIdle

Next ==
    \/ \E p \in Procs :
          \/ Call_ensure_schema(p)
          \/ Call_get_schema(p)
          \/ Call_ensure_schema_again(p)
          \/ get_schema(p)
          \/ add_column(p)
          \/ modify_column(p)
          \/ keep_column(p)
          \/ generalize_fails(p)
          \/ optimize(p)
    \/ Call_bulkinsert
    \/ bulkinsert_send
    \/ bulkinsert_split
    \/ bulkinsert_too_large
    \/ bulkinsert_recursion

Spec == Init /\ [][Next]_vars

(* Two reconcilers on the same table: each cursor is called once, with a   *)
(* desired schema of the table's columns, and their statements interleave  *)
(* in every order.  A statement of a reconciler that is under way is       *)
(* answered, with a response or with an error.                             *)
Call_concurrent(p) ==
    /\ p \in active /\ cur[p].pc = "idle" /\ Quiet
    /\ \E f \in {<<"a">>} :
         \E ty \in [1..Len(f) -> {"Int64", "String", "Array(Int64)"}] :
            cur' = [cur EXCEPT ![p] =
                      [Idle EXCEPT !.op = "ensure", !.pc = "get_schema",
                                   !.table = RemoteTable, !.fields = f,
                                   !.types = ty]]
    /\ UNCHANGED <<remote, active, bulk, cursors, flat, store>>

Step(p) ==
    \/ get_schema(p)
    \/ add_column(p)
    \/ modify_column(p)
    \/ keep_column(p)
    \/ generalize_fails(p)
    \/ optimize(p)

InitConcurrent ==
    /\ remote = NoSchema
    /\ active = Procs
    /\ cur = [p \in Procs |-> Idle]
    /\ bulk = BulkIdle
    /\ cursors = [p \in Procs |-> SelIdle]
    /\ flat = FlatIdle
    /\ store = StoreIdle

NextConcurrent ==
    \E p \in Procs :
       \/ Call_concurrent(p)
       \/ get_schema(p)
       \/ add_column(p)
       \/ modify_column(p)
       \/ keep_column(p)
       \/ generalize_fails(p)
       \/ optimize(p)

ConcurrentSpec ==
    /\ InitConcurrent /\ [][NextConcurrent]_vars
    /\ \A p \in Procs : WF_vars(Step(p))

(* store_documents on a table whose columns, if any, are dates: the steps  *)
(* of its _ensure_schema and of its bulkinsert are those of Next.          *)
InitStore == Init /\ remote \in [Cols -> {Absent, "Date"}]

NextStore ==
    \/ \E p \in Procs :
          \/ Call_store_documents(p)
          \/ get_schema(p)
          \/ add_column(p)
          \/ modify_column(p)
          \/ keep_column(p)
          \/ generalize_fails(p)
          \/ optimize(p)
    \/ store_documents_raised
    \/ store_documents_insert
    \/ store_documents_return
    \/ store_documents_except
    \/ bulkinsert_send
    \/ bulkinsert_split
    \/ bulkinsert_too_large
    \/ bulkinsert_recursion

StoreSpec == InitStore /\ [][NextStore]_vars

(* The calls that read results: they do not touch the table's schema, and  *)
(* are followed from the cursor as constructed.                            *)
InitSelect == Init /\ remote = NoSchema

NextSelect ==
    \/ \E query \in Queries : select(query)
    \/ \E query \in ExecuteQueries : execute(query)
    \/ ddl
    \/ fetchone
    \/ fetchall

SelectSpec == InitSelect /\ [][NextSelect]_vars

(* The calls of cached_select, with statements in between.                 *)
NextCache ==
    \/ \E query \in CachedQueries, filter \in Filters :
          cached_select(query, filter)
    \/ ddl

CacheSpec == InitSelect /\ [][NextCache]_vars

(* The flattener alone.                                                    *)
NextEscape == \E query \in ParamQueries, args \in {<<param>> : param \in Params} :
                 insert(query, args)

EscapeSpec == InitSelect /\ [][NextEscape]_vars

NextFlatten == Call_flatten_dict

FlattenSpec == InitSelect /\ [][NextFlatten]_vars

---------------------------------------------------------------------------
(* Properties of _ensure_schema.                                           *)

Ensuring(p) == cur[p].op = "ensure"
Alters(f) == { k \in 1..Len(f.log) : IsAlter(f.log[k]) }
Optimizes(f) == { k \in 1..Len(f.log) : f.log[k].kind = "optimize" }

(* C1: _ensure_schema makes at most MaxTries (5) attempts, numbered 0..4;  *)
(* the first statement of every attempt is the select of the remote        *)
(* schema, and every ALTER of an attempt is decided from the schema that   *)
(* was fetched in that same attempt.                                       *)
C1_FreshSchemaEachAttempt ==
    \A p \in Procs :
       Ensuring(p) =>
          LET f == cur[p]
          IN  /\ f.tries <= MaxTries
              /\ f.pc \in {"get_schema", "loop", "optimize", "done"}
                    => f.tries < MaxTries
              /\ \A k \in 1..Len(f.log) :
                    /\ f.log[k].try < MaxTries
                    /\ (k = 1) <=> (f.log[k].kind = "select")
                    /\ k > 1 => /\ f.log[1].ok
                                /\ f.log[1].try = f.log[k].try
                                /\ f.log[k].basis = f.log[k].try

(* An ALTER is issued in the fifth attempt.                                *)
C1_Witness ==
    \E p \in Procs :
       /\ Ensuring(p)
       /\ \E k \in Alters(cur[p]) : cur[p].log[k].try = MaxTries - 1

(* C2: when all 5 attempts fail, _ensure_schema raises a fatal error that  *)
(* carries the error of the fifth attempt, after exactly 5 attempts and    *)
(* without returning a schema.                                             *)
C2_FatalCarriesLastError ==
    \A p \in Procs :
       (Ensuring(p) /\ cur[p].pc = "raised") =>
          /\ cur[p].tries = MaxTries
          /\ cur[p].ret = <<>>
          /\ cur[p].raised = <<"Cannot ensure target schema", cur[p].last_err>>

(* Every desired column is in the fetched schema with the desired type or  *)
(* a wider one.                                                            *)
Covered(f) ==
    \A i \in 1..Len(f.fields) :
       LET r == f.table_schema[f.fields[i]]
       IN  /\ r # Absent
           /\ r = f.types[i] \/ generalize_type(r, f.types[i]) = r

(* C3: an attempt whose fetched schema covers the desired schema issues no *)
(* ADD COLUMN, no MODIFY COLUMN and no OPTIMIZE; a second reconcile with   *)
(* the same desired schema right after a successful one issues none.       *)
C3_Convergent ==
    \A p \in Procs :
       Ensuring(p) =>
          LET f == cur[p]
          IN  /\ (f.pc \in {"loop", "optimize", "done"} /\ Covered(f))
                    => (Alters(f) = {} /\ Optimizes(f) = {}
                        /\ f.pc # "optimize")
              /\ f.again => (Alters(f) = {} /\ Optimizes(f) = {}
                             /\ f.pc # "optimize")

(* The second reconcile returned, for two columns of which one is          *)
(* remotely wider than desired.                                            *)
C3_Witness ==
    \E p \in Procs :
       /\ Ensuring(p) /\ cur[p].again /\ cur[p].pc = "done"
       /\ Len(cur[p].fields) = 2
       /\ \E i \in 1..2 : cur[p].table_schema[cur[p].fields[i]] # cur[p].types[i]

(* The alterations the fetched schema calls for.                           *)
ExpectedAlters(f) ==
    { [kind |-> "add", col |-> f.fields[i], type |-> f.types[i]] :
        i \in { j \in 1..Len(f.fields) : f.table_schema[f.fields[j]] = Absent } }
    \cup
    { [kind |-> "modify", col |-> f.fields[i],
       type |-> generalize_type(f.table_schema[f.fields[i]], f.types[i])] :
        i \in { j \in 1..Len(f.fields) :
                  /\ f.table_schema[f.fields[j]] # Absent
                  /\ f.table_schema[f.fields[j]] # f.types[j]
                  /\ generalize_type(f.table_schema[f.fields[j]], f.types[j])
                        # f.table_schema[f.fields[j]] } }

IssuedAlters(f) ==
    { [kind |-> f.log[k].kind, col |-> f.log[k].col, type |-> f.log[k].type] :
        k \in Alters(f) }

(* C4: in a successful attempt the ALTER statements issued are exactly one *)
(* ADD COLUMN with the desired type per desired column absent from the     *)
(* fetched schema and one MODIFY COLUMN to the generalized type per        *)
(* present column whose type differs from the desired and the generalized  *)
(* type, each on the reconciled table.                                     *)
C4_ExactAlterations ==
    \A p \in Procs :
       (Ensuring(p) /\ cur[p].pc = "done") =>
          LET f == cur[p]
          IN  /\ IssuedAlters(f) = ExpectedAlters(f)
              /\ Cardinality(Alters(f)) = Cardinality(ExpectedAlters(f))
              /\ \A k \in Alters(f) : f.log[k].ok /\ f.log[k].table = f.table

(* A successful attempt that added one column and modified the other.      *)
C4_Witness ==
    \E p \in Procs :
       /\ Ensuring(p) /\ cur[p].pc = "done"
       /\ \E j, k \in Alters(cur[p]) :
             cur[p].log[j].kind = "add" /\ cur[p].log[k].kind = "modify"

(* C5: an OPTIMIZE is the last statement of its attempt, follows at least  *)
(* one ALTER and only statements that succeeded; an attempt that ends      *)
(* successfully issued an OPTIMIZE if and only if it issued an ALTER.      *)
C5_OptimizeAfterAlterations ==
    \A p \in Procs :
       Ensuring(p) =>
          LET f == cur[p]
          IN  /\ \A k \in Optimizes(f) :
                    /\ k = Len(f.log)
                    /\ \E j \in Alters(f) : j < k
                    /\ \A j \in 1..(k - 1) : f.log[j].ok
              /\ \A k \in 1..Len(f.log) : ~f.log[k].ok => k = Len(f.log)
              /\ f.pc = "done" => ((Alters(f) # {}) <=> (Optimizes(f) # {}))

(* A successful attempt: two ALTERs, then the OPTIMIZE.                    *)
C5_Witness ==
    \E p \in Procs :
       /\ Ensuring(p) /\ cur[p].pc = "done"
       /\ Cardinality(Alters(cur[p])) = 2
       /\ Optimizes(cur[p]) = {Len(cur[p].log)}

---------------------------------------------------------------------------
(* Properties of bulkinsert.                                               *)

RECURSIVE Concat(_)
Concat(batches) ==
    IF batches = <<>> THEN <<>> ELSE batches[1] \o Concat(Tail(batches))

Ended == bulk.pc \in {"done", "raised"}

(* C6: every payload handed to the transport is strictly smaller than the  *)
(* ceiling, and a batch whose payload is at or above the ceiling is not    *)
(* sent as one request.                                                    *)
C6_SentBelowCeiling ==
    /\ \A k \in 1..Len(bulk.sent) :
          PayloadLen(bulk.header, bulk.sent[k]) * Unit < Ceiling
    /\ PayloadLen(bulk.header, bulk.values) >= CeilingUnits
          => \A k \in 1..Len(bulk.sent) : bulk.sent[k] # bulk.values

(* A batch above the ceiling was split and a sub-batch one unit below the  *)
(* ceiling was sent.                                                       *)
C6_Witness ==
    /\ bulk.depth >= 1
    /\ \E k \in 1..Len(bulk.sent) :
          PayloadLen(bulk.header, bulk.sent[k]) = CeilingUnits - 1

(* C7: when bulkinsert returns, the sub-batches sent, concatenated in the  *)
(* order sent, are the original record sequence.                           *)
C7_SentIsOriginal ==
    bulk.pc = "done" => Concat(bulk.sent) = bulk.values

(* bulkinsert returned after splitting a sub-batch of a split batch.       *)
C7_Witness ==
    bulk.pc = "done" /\ bulk.depth >= 2 /\ Len(bulk.sent) >= 3

(* Some record's payload alone is above the ceiling.                       *)
SomeRecordTooLarge ==
    \E i \in 1..Len(bulk.values) :
       PayloadLen(bulk.header, <<bulk.values[i]>>) > CeilingUnits

(* C8: unless the transport fails first, bulkinsert ends with the sizing   *)
(* error whenever some single record's payload alone exceeds the ceiling,  *)
(* and it raises the sizing error in no other case.                        *)
C8_SizingErrorIffRecordTooLarge ==
    /\ (Ended /\ SomeRecordTooLarge
           /\ \A e \in RemoteErrors : bulk.err # <<e>>)
          => bulk.err = <<"too large">>
    /\ bulk.err = <<"too large">> => SomeRecordTooLarge

---------------------------------------------------------------------------
(* Properties of get_schema and of the error handling of _ensure_schema.   *)

Dots(name) == { i \in 1..Len(name) : name[i] = "." }

(* C9: for a table name with more than one '.', get_schema raises the      *)
(* invalid-name error and no statement is sent to the remote store, also   *)
(* inside _ensure_schema; a name without '.' is looked up in database      *)
(* 'default', a name with one '.' in the database before the '.'.          *)
C9_TableNameValidated ==
    \A p \in Procs :
       cur[p].op # "none" =>
          LET f == cur[p]
              name == f.table
              dots == Dots(name)
          IN  /\ Cardinality(dots) > 1 =>
                    /\ f.log = <<>> /\ f.schema_try < 0 /\ f.pc # "done"
                    /\ f.pc # "get_schema" =>
                          /\ f.pc = "raised"
                          /\ f.op = "get_schema" => f.raised = <<"invalid name">>
                    /\ f.tries > 0 => f.last_err = "invalid name"
              /\ Cardinality(dots) = 0 =>
                    \A k \in 1..Len(f.log) :
                       f.log[k].kind = "select" =>
                          /\ f.log[k].database = <<"default">>
                          /\ f.log[k].tablename = name
              /\ Cardinality(dots) = 1 =>
                    \A k \in 1..Len(f.log) :
                       f.log[k].kind = "select" =>
                          \E d \in dots :
                             /\ f.log[k].database = SubSeq(name, 1, d - 1)
                             /\ f.log[k].tablename =
                                   SubSeq(name, d + 1, Len(name))

(* _ensure_schema has met the invalid name in each of its 5 attempts.      *)
C9_Witness ==
    \E p \in Procs :
       /\ Ensuring(p) /\ Cardinality(Dots(cur[p].table)) > 1
       /\ cur[p].tries = MaxTries /\ cur[p].last_err = "invalid name"

(* C10: during reconciliation an error other than a remote version         *)
(* conflict reaches the caller as that error on its first occurrence: it   *)
(* is not swallowed and not retried.                                       *)
C10_OtherErrorsPropagate ==
    \A p \in Procs :
       (Ensuring(p) /\ cur[p].last_err \notin {"none", "bad version"}) =>
          /\ cur[p].pc = "raised"
          /\ cur[p].raised = <<cur[p].last_err>>
          /\ cur[p].tries = 1

---------------------------------------------------------------------------
(* Termination of bulkinsert and the schema _ensure_schema returns.        *)

(* The records of the caller of the call at depth k of the recursion.      *)
CallerRecords(k) == bulk.stack[k].values

(* C17: bulkinsert terminates for every batch: every recursive call gets   *)
(* strictly fewer records than its caller, and the recursion ends with all *)
(* sub-batches sent or with the sizing error (or a failure of the          *)
(* transport), also when a payload is exactly as large as the ceiling.     *)
C17_RecursionShrinks ==
    /\ \A k \in 1..Len(bulk.stack) :
          IF k < Len(bulk.stack)
          THEN Len(CallerRecords(k + 1)) < Len(CallerRecords(k))
          ELSE bulk.pc = "call" => Len(bulk.call) < Len(CallerRecords(k))
    /\ bulk.pc = "raised" =>
          bulk.err \in {<<"too large">>} \cup { <<e>> : e \in RemoteErrors }
    /\ bulk.pc = "done" => Concat(bulk.sent) = bulk.values

(* C18: the types _ensure_schema returns are the remote table's types      *)
(* after the reconciliation: the desired type for a column that was added, *)
(* generalize_type(remote, desired) for a column that was there.           *)
C18_ReturnsEffectiveSchema ==
    \A p \in Procs :
       (Ensuring(p) /\ cur[p].pc = "done") =>
          LET f == cur[p]
          IN  /\ f.ret[1] = f.fields
              /\ \A i \in 1..Len(f.fields) :
                    LET before == f.table_schema[f.fields[i]]
                    IN  /\ f.ret[2][i] = remote[f.fields[i]]
                        /\ f.ret[2][i] = IF before = Absent THEN f.types[i]
                                         ELSE generalize_type(before, f.types[i])

---------------------------------------------------------------------------
(* Properties of select, fetchone and fetchall.                            *)

OmitsFormat(query) == \A i \in 1..Len(query) : LowerToken(query[i]) # "format"

EndsWithFormat(query) ==
    LET n == Len(query)
    IN  /\ n >= 3
        /\ LowerToken(query[n - 2]) = "format"
        /\ query[n - 1] \in Whitespace /\ IsWord(query[n])

EndsWithFormatTSV(query) ==
    /\ Len(query) > 4
    /\ SubSeq(query, Len(query) - 3, Len(query)) = FormatClause

(* C11: after a successful select, fetchall returns the parsed rows, one   *)
(* dictionary per row, when the query has no FORMAT clause and also when   *)
(* it ends with FORMAT TabSeparatedWithNamesAndTypes; every query select   *)
(* sends ends with a FORMAT clause.                                        *)
C11_SelectParsesBothForms ==
    (sel.out.op = "select" /\ sel.out.raised = None) =>
       /\ \A k \in 1..Len(sel.out.sent) : EndsWithFormat(sel.out.sent[k])
       /\ (OmitsFormat(sel.out.query) \/ EndsWithFormatTSV(sel.out.query))
             => Fetchall(sel) = Some(unformat(sel.out.content[1]))

(* C12: after a select that returned the rows r1..rn, the fetchone calls   *)
(* return r1..rn in order, each once, and None from then on; fetchone does *)
(* not change what fetchall returns; the row position never passes n - 1;  *)
(* an executed statement puts the position before the first row.           *)
C12_FetchoneInOrder ==
    /\ Fetchall(sel) # None =>
          LET rows == Fetchall(sel)[1]
              n == Len(rows)
              k == Len(sel.fetched)
          IN  /\ \A j \in 1..k :
                    sel.fetched[j] = IF j <= n THEN Some(rows[j]) ELSE None
              /\ sel.rowindex = Min(k, n) - 1
              /\ sel.rowindex <= n - 1
              /\ sel.executed # None /\ sel.executed[1].parseresult
              /\ rows = unformat(sel.executed[1].content)
    /\ (sel.out.op \in {"select", "ddl"} /\ sel.out.raised = None)
          => sel.rowindex = -1

(* Two different rows were fetched in order, and two more calls of         *)
(* fetchone returned None.                                                 *)
C12_Witness ==
    /\ Fetchall(sel) # None
    /\ Len(Fetchall(sel)[1]) = 2
    /\ Fetchall(sel)[1][1] # Fetchall(sel)[1][2]
    /\ sel.fetched = <<Some(Fetchall(sel)[1][1]), Some(Fetchall(sel)[1][2]),
                       None, None>>

---------------------------------------------------------------------------
(* Properties of cached_select.                                            *)

(* C13: cached_select sends the query only in the first call that returns  *)
(* for a query and a set of filter fields; a later call with the same      *)
(* query and fields sends nothing and is answered from the dataset the     *)
(* first call built, which is never rebuilt or dropped.                    *)
C13_CachedOnce ==
    /\ \A r \in sel.first :
          /\ has_dataset(sel.cache, Tag(r.query, r.keys))
          /\ sel.cache[Tag(r.query, r.keys)] = r.dataset
    /\ (sel.out.op = "cached_select" /\ sel.out.raised = None) =>
          \A r \in sel.first :
             (r.query = sel.out.query /\ r.keys = sel.out.keys
                 /\ r.call < sel.calls) =>
                /\ sel.out.sent = <<>>
                /\ r.dataset.query = sel.out.query
                /\ r.dataset.keys = sel.out.keys

(* C20: the datasets of the cache are keyed by the query and the sorted    *)
(* filter fields: a cached_select is never resolved to a dataset that was  *)
(* fetched by another query or indexed on other fields.                    *)
C20_KeyedByQueryAndFields ==
    (sel.out.op = "cached_select"
        /\ has_dataset(sel.cache, sel.out.tag[1])) =>
       /\ sel.cache[sel.out.tag[1]].query = sel.out.query
       /\ sel.cache[sel.out.tag[1]].keys = sel.out.keys

---------------------------------------------------------------------------
(* Properties of the flattener.                                            *)

Flattened == flat.doc # None
SourceValue == flat.doc[1].v[1].x
SourcePrefix == <<flat.doc[1].v[1].k>>
Output == flat.result[1]

(* An array that is not empty.                                              *)
IsArray(v) == v.t = "list" /\ v.v # <<>>

ContainsArray(arr) ==
    \E i \in 1..Len(arr.v) :
       \/ IsArray(arr.v[i])
       \/ /\ arr.v[i].t = "map"
          /\ \E j \in 1..Len(arr.v[i].v) : IsArray(arr.v[i].v[j].x)

(* The sub-field of a value along a path of keys, Null where it is absent. *)
RECURSIVE Sub(_, _)
Sub(v, keys) ==
    IF keys = <<>> THEN v
    ELSE IF v.t # "map" THEN Null
    ELSE IF \E j \in 1..Len(v.v) : v.v[j].k = keys[1]
    THEN Sub(v.v[CHOOSE j \in 1..Len(v.v) : v.v[j].k = keys[1]].x, Tail(keys))
    ELSE Null

(* What the column of a path holds for one source element: the value at    *)
(* the path, None where the element has none, is None or is empty; a map   *)
(* is not a value of its own column, its sub-fields have theirs.           *)
ExpectedAt(element, keys) ==
    LET leaf == Sub(element, keys)
    IN  IF leaf.t = "map" \/ Skipped(leaf) THEN Null ELSE leaf

SubKeys == {"x", "y", "z"}
Paths == {<<>>} \cup { <<k>> : k \in SubKeys }
            \cup { <<k, l>> : k \in SubKeys, l \in SubKeys }

RECURSIVE ColumnName(_, _)
ColumnName(prefix, keys) ==
    IF keys = <<>> THEN prefix
    ELSE ColumnName(prefix \o <<"_", keys[1]>>, Tail(keys))

ExpectedColumn(arr, keys) ==
    [i \in 1..Len(arr.v) |-> ExpectedAt(arr.v[i], keys)]

(* C14: the columns of a flattened array are aligned with it: every array  *)
(* column that comes from a source array has the length of the source      *)
(* array, element i of column <prefix>_<x> is sub-field x of source        *)
(* element i, and None where that element has no x or is None or empty.    *)
(* It is stated for every array of the documents, whatever its elements    *)
(* hold.                                                                   *)
C14_ArrayColumnsAligned ==
    (Flattened /\ ~flat.raised /\ SourceValue.t = "list") =>
       \A keys \in Paths :
          LET name == ColumnName(SourcePrefix, keys)
          IN  name \in DOMAIN Output =>
                 Output[name] = List(ExpectedColumn(SourceValue, keys))

(* C15: an array that holds an array, or a map element that holds an       *)
(* array, is emitted as the one column <prefix>_json with the serialized   *)
(* array: no other column comes from it, and no error reaches the caller.  *)
C15_FallbackIsOneColumn ==
    (Flattened /\ SourceValue.t = "list" /\ ContainsArray(SourceValue)) =>
       /\ ~flat.raised
       /\ DOMAIN Output = {SourcePrefix \o <<"_json">>}
       /\ Output[SourcePrefix \o <<"_json">>] = Str(dumps(SourceValue))

---------------------------------------------------------------------------
(* store_documents.                                                        *)

(* The column a flattened name of one key stands for.                      *)
Column(name) == name[1]

StoreFields == { store.fields[i] : i \in 1..Len(store.fields) }
FlattenedFields ==
    UNION { { Column(n) : n \in DOMAIN store.documents[d] } :
              d \in 1..Len(store.documents) }
Inferred == store.pc # "idle" /\ store.raised # Some(Incompatible)
FreshTable ==
    /\ Inferred
    /\ \A c \in StoreFields : store.remote0[c] = Absent
InsertSent == bulk.sent # <<>>
StoreLog == cur[store.proc].log

(* C16: store_documents on a table that has none of the batch's columns    *)
(* infers one column per distinct flattened field over all documents of    *)
(* the batch, and flattens a document without a field whose value is an    *)
(* empty array or null; the INSERT is sent only after all alterations and  *)
(* the OPTIMIZE have succeeded, that is, after an attempt of               *)
(* _ensure_schema whose statements all succeeded and that ended with the   *)
(* OPTIMIZE, when every inferred column is in the table; and a call none   *)
(* of whose statements fails issues exactly one ADD COLUMN for each        *)
(* inferred column, in its inferred type.                                  *)
C16_StoreOnFreshTable ==
    /\ Inferred =>
          /\ StoreFields = FlattenedFields
          /\ Cardinality(StoreFields) = Len(store.fields)
          /\ \A d \in 1..Len(store.batch) :
                \A k \in 1..Len(store.batch[d].v) :
                   LET item == store.batch[d].v[k]
                   IN  Skipped(item.x) <=>
                          <<item.k>> \notin DOMAIN store.documents[d]
    /\ (FreshTable /\ InsertSent) =>
          /\ cur[store.proc].pc = "done"
          /\ \A k \in 1..Len(StoreLog) : StoreLog[k].ok
          /\ \A i \in 1..Len(store.fields) :
                remote[store.fields[i]] = store.types[i]
          /\ store.fields # <<>> =>
                StoreLog[Len(StoreLog)].kind = "optimize"
    /\ (FreshTable /\ cur[store.proc].pc = "done"
                   /\ cur[store.proc].tries = 0) =>
          /\ Len(StoreLog) = 1 + Len(store.fields)
                               + (IF store.fields = <<>> THEN 0 ELSE 1)
          /\ \A i \in 1..Len(store.fields) :
                /\ StoreLog[i + 1].kind = "add"
                /\ StoreLog[i + 1].col = store.fields[i]
                /\ StoreLog[i + 1].type = store.types[i]

(* C19: after reconciliation store_documents attempts the bulk insert at   *)
(* most MaxTries (5) times; a failure that is not 'bad version' leaves     *)
(* store_documents as itself after that attempt; a 'bad version' failure   *)
(* is raised only after MaxTries attempts; and store_documents returns     *)
(* after the first attempt that succeeded.                                 *)
C19_InsertRetried ==
    /\ store.inserts <= MaxTries
    /\ store.pc = "done" => bulk.pc = "done"
    /\ (store.pc = "raised" /\ store.last_err # None) =>
          /\ store.raised = store.last_err
          /\ store.last_err = Some("bad version") => store.inserts = MaxTries

---------------------------------------------------------------------------
(* The shape of the flattener's output.                                    *)

IsScalar(v) == v.t \in {"int", "str"}
IsFlatArray(v) ==
    /\ v.t = "list"
    /\ \A i \in 1..Len(v.v) : IsScalar(v.v[i]) \/ v.v[i].t = "none"

(* C21: for every input document, each value in the output of the          *)
(* flattener is a scalar, a serialized text, or a one-level array whose    *)
(* elements are scalars or NULL: no output column is an array that         *)
(* contains an array.                                                      *)
C21_OutputOneLevel ==
    (Flattened /\ ~flat.raised) =>
        \A name \in DOMAIN Output : IsScalar(Output[name]) \/ IsFlatArray(Output[name])

---------------------------------------------------------------------------
(* Concurrent reconcilers.                                                 *)

Terminated(p) == cur[p].pc \in {"done", "raised"}

(* The attempts a reconciler has started: the failed ones, and the one     *)
(* under way or returned from.                                             *)
Attempts(f) == IF f.pc = "raised" THEN f.tries ELSE f.tries + 1

(* The place of a reconciler in its attempt, and its progress: the failed  *)
(* attempts first, then the place in the attempt under way; a reconciler   *)
(* that has terminated is at the top.                                      *)
Stage(f) ==
    CASE f.pc = "idle" -> 0
      [] f.pc = "get_schema" -> 1
      [] f.pc = "loop" -> 1 + f.idx
      [] OTHER -> 2 + Len(f.fields) + 1
StageCount(f) == Len(f.fields) + 4
Progress(f) ==
    IF f.pc \in {"done", "raised"} THEN (MaxTries + 1) * StageCount(f)
    ELSE f.tries * StageCount(f) + Stage(f)

(* C22: when two reconcilers run concurrently against the same table,      *)
(* under any interleaving of their steps and with alterations that fail    *)
(* because the other reconciler changed the table, each reconciler         *)
(* terminates after at most MaxTries (5) attempts: it never starts more    *)
(* attempts, while it is under way one of its own steps is enabled         *)
(* whatever the other does (no deadlock), and each of its steps takes it   *)
(* further in a progress that is bounded (no retrying forever).            *)
C22_ConcurrentTerminates ==
    /\ [](\A p \in Procs : Attempts(cur[p]) <= MaxTries)
    /\ [](\A p \in Procs :
            (Ensuring(p) /\ ~Terminated(p)) => ENABLED Step(p))
    /\ [][\A p \in Procs :
            cur'[p] # cur[p] => Progress(cur'[p]) > Progress(cur[p])]_vars

(* Both reconcilers returned, one of them after an alteration of its was   *)
(* rejected because the other had added the column.                        *)
C22_Witness ==
    /\ \A p \in Procs : cur[p].pc = "done"
    /\ cur[1].last_err = "rejected" /\ cur[1].tries > 0
    /\ cur[2].tries = 0 /\ cur[2].ddled

---------------------------------------------------------------------------
(* Parameters.                                                             *)

(* The backslashes that end at position j of a text.                       *)
RECURSIVE BackslashRun(_, _)
BackslashRun(text, j) ==
    IF j >= 1 /\ text[j] = Backslash THEN 1 + BackslashRun(text, j - 1) ELSE 0

Substituted == sel.out.op = "insert" /\ sel.out.sent # <<>>

(* C23: every string parameter substituted into a query is rendered as a   *)
(* text between two single quotes in which every single quote coming from  *)
(* the parameter is preceded by an odd number of backslashes.              *)
C23_QuotesEscaped ==
    Substituted =>
       \A k \in 1..Len(sel.out.args) :
          sel.out.args[k].t = "str" =>
             LET text == sel.out.params[k]
             IN  /\ Len(text) >= 2
                 /\ text[1] = Quote /\ text[Len(text)] = Quote
                 /\ \A i \in 2..(Len(text) - 1) :
                       text[i] = Quote =>
                          BackslashRun(text, i - 1) % 2 = 1

====
